---- MODULE Spec2Model ----
(***************************************************************************)
(* Host side of the STM32 UART bootloader protocol (stm32_loader.py):      *)
(* the command operations of STM32Loader, the block transfer loops and the *)
(* load() orchestration, run against a bootloader device that answers on   *)
(* the serial channel.                                                     *)
(***************************************************************************)
EXTENDS Integers, Sequences, FiniteSets, TLC

VARIABLES
    pc,                     \* position of the caller in load() / the block transfer
    caller,                 \* "load" or "direct" (block transfer called on a loader)
    arg_image,              \* the binary_image argument as passed by the caller
    arg_address,            \* the load_address argument: <<>> is None, <<a>> is a
    binary_image,           \* load's local binary_image (padded in place)
    load_address,           \* load's local load_address after defaulting
    go,                     \* the go flag
    readout_unprotect,      \* the readout_unprotect flag
    write_unprotect,        \* the write_unprotect flag
    synchronization_prefix, \* STM32Loader.synchronization_prefix
    io,                     \* the serial port: "none", "open", "closed"
    trace,                  \* every call made on the loader, with its channel events
    attempt,                \* iterations of the resynchronization loop done
    var_get,                \* var_get['commands'], <<-1>> while unassigned
    length,                 \* the block loops' local length
    offset,                 \* the block loops' local offset
    output,                 \* read_memory_blocks' local output
    readback,               \* load's local readback
    exc,                    \* the exception that left load ("none" if none)
    progress,               \* the progress callback's invocations
    rounds,                 \* direct use: write-then-read rounds completed
    mem,                    \* the device's flash: address -> byte, erased where absent
    unread,                 \* bytes the device sent that no call has read yet
    reliable                \* the device answers every exchange correctly

vars == <<pc, caller, arg_image, arg_address, binary_image, load_address, go,
          readout_unprotect, write_unprotect, synchronization_prefix, io, trace,
          attempt, var_get, length, offset, output, readback, exc, progress,
          rounds, mem, unread, reliable>>

----------------------------------------------------------------------------
(* Program constants *)

ACK == 121
NACK == 31
SYNCHRONIZATION_BYTE == 127
WRITE_BLOCK_SIZE == 256
READ_BLOCK_SIZE == 256
CMD_GET == 0
CMD_GET_VERSION_AND_PROTECTION_STATUS == 1
CMD_GET_ID == 2
CMD_READ_MEMORY == 17
CMD_GO == 33
CMD_WRITE_MEMORY == 49
CMD_ERASE == 67
CMD_EXTENDED_ERASE == 68
CMD_WRITE_UNPROTECT == 115
CMD_READOUT_UNPROTECT == 146
DEFAULT_FLASH_ADDRESS == 134217728
ResyncAttempts == 3
PadByte == 255

Min(a, b) == IF a < b THEN a ELSE b

RECURSIVE XorBits(_, _, _)
XorBits(a, b, n) ==
    IF n = 0 THEN 0
    ELSE (((a % 2) + (b % 2)) % 2) + 2 * XorBits(a \div 2, b \div 2, n - 1)

\* a ^ b on bytes
Xor(a, b) == XorBits(a, b, 8)

\* The XOR of the bytes of s, folded by halves (XOR is associative, and a fold
\* one byte at a time nests 256 deep on a full block)
RECURSIVE XorAll(_)
XorAll(s) ==
    IF Len(s) = 0 THEN 0
    ELSE IF Len(s) = 1 THEN s[1]
    ELSE LET h == Len(s) \div 2
         IN  Xor(XorAll(SubSeq(s, 1, h)), XorAll(SubSeq(s, h + 1, Len(s))))

\* XorFold, had it left the initial value out
XorFoldOfData(s, init) == XorAll(s)

\* reduce(lambda a, x: a ^ x, s, init)
XorFold(s, init) == Xor(init, XorAll(s))

----------------------------------------------------------------------------
(* Channel events and the steps of a command operation *)

EvWrite(d) == [op |-> "w", n |-> Len(d), d |-> d]
EvRead(n, d) == [op |-> "r", n |-> n, d |-> d]
EvFlush == [op |-> "flush", n |-> 0, d |-> <<>>]
EvOpen == [op |-> "open", n |-> 0, d |-> <<>>]
EvClose == [op |-> "close", n |-> 0, d |-> <<>>]

\* self._write(d)
Wr(d) == [k |-> "w", n |-> 0, d |-> d, e |-> "none"]
\* self._wait_for_ack()
Ak == [k |-> "ack", n |-> 1, d |-> <<>>, e |-> "none"]
\* self._read_bytes(n)
Rd(n) == [k |-> "rd", n |-> n, d |-> <<>>, e |-> "none"]
\* raise e
Raise(e) == [k |-> "raise", n |-> 0, d |-> <<>>, e |-> e]

\* The exceptions raised with class STM32LoaderException itself, by message
InvalidResponse == "STM32LoaderException: Invalid response while waiting for ACK"
UnexpectedIdLength == "STM32LoaderException: GET ID: Unexpected number of bytes"
InvalidDataLength == "STM32LoaderException: Invalid data length"
VerificationFailed == "STM32LoaderException: Verification failed"

\* The class of exception e: the two subclasses, the base class, or a foreign one
ExcClass(e) ==
    CASE e = "none" -> "none"
      [] e \in {"STM32LoaderTimeoutException", "STM32LoaderNACKException"} -> e
      [] e \in {InvalidResponse, UnexpectedIdLength, InvalidDataLength,
                VerificationFailed} -> "STM32LoaderException"
      [] OTHER -> e

\* self.io.read(n): up to n bytes of what the device sent
IoRead(rx, n) == SubSeq(rx, 1, Min(n, Len(rx)))

\* _read_bytes: the exception raised on x, the result of io.read(n)
ReadBytesExc(x, n) == IF Len(x) # n THEN "STM32LoaderTimeoutException" ELSE "none"

\* WaitForAck, had it not told a NACK from any other wrong byte
WaitForAckNoNack(x) ==
    IF ReadBytesExc(x, 1) # "none" THEN ReadBytesExc(x, 1)
    ELSE IF x[1] # ACK THEN InvalidResponse
    ELSE "none"

\* _wait_for_ack: the exception raised on x, the result of io.read(1)
WaitForAck(x) ==
    IF ReadBytesExc(x, 1) # "none" THEN ReadBytesExc(x, 1)
    ELSE IF x[1] = NACK THEN "STM32LoaderNACKException"
    ELSE IF x[1] # ACK THEN InvalidResponse
    ELSE "none"

\* The steps of script run in order; st holds the channel events so far, the
\* values read, the exception if any, and rx, what the device sends and is not
\* read yet.
RECURSIVE Run(_, _)
Run(script, st) ==
    IF script = <<>> \/ st.exc # "none" THEN st
    ELSE LET s == Head(script)
             x == IoRead(st.rx, s.n)
             rest == SubSeq(st.rx, Len(x) + 1, Len(st.rx))
         IN  CASE s.k = "w" ->
                    Run(Tail(script), [st EXCEPT !.ev = Append(@, EvWrite(s.d))])
               [] s.k = "ack" ->
                    Run(Tail(script),
                        [st EXCEPT !.ev = Append(@, EvRead(1, x)),
                                   !.exc = WaitForAck(x),
                                   !.rx = rest])
               [] s.k = "rd" ->
                    Run(Tail(script),
                        [st EXCEPT !.ev = Append(@, EvRead(s.n, x)),
                                   !.exc = ReadBytesExc(x, s.n),
                                   !.rd = IF ReadBytesExc(x, s.n) = "none"
                                          THEN Append(@, x) ELSE @,
                                   !.rx = rest])
               [] s.k = "raise" ->
                    [st EXCEPT !.exc = s.e]

\* A command operation run against rx, the bytes the device sends in answer
Exec(script, rx) == Run(script, [ev |-> <<>>, exc |-> "none", rd |-> <<>>, rx |-> rx])

----------------------------------------------------------------------------
(* The command operations of STM32Loader, each as the steps it performs *)

\* Synchronize, had it not looked at skip_prefix
SynchronizeWithPrefix(prefix, skip_prefix, broken) ==
    IF broken
    THEN [ev |-> <<EvFlush>>, exc |-> "SerialException", rd |-> <<>>, rx |-> <<>>]
    ELSE [ev |-> <<EvFlush>>
                 \o (IF prefix # <<>> THEN <<EvWrite(prefix)>> ELSE <<>>)
                 \o <<EvWrite(<<SYNCHRONIZATION_BYTE>>), EvFlush>>,
          exc |-> "none", rd |-> <<>>, rx |-> <<>>]

\* synchronize(skip_prefix) on a loader with the given prefix; broken: the
\* channel raises on the first write
Synchronize(prefix, skip_prefix, broken) ==
    IF broken
    THEN [ev |-> <<EvFlush>>, exc |-> "SerialException", rd |-> <<>>, rx |-> <<>>]
    ELSE [ev |-> <<EvFlush>>
                 \o (IF prefix # <<>> /\ ~skip_prefix THEN <<EvWrite(prefix)>> ELSE <<>>)
                 \o <<EvWrite(<<SYNCHRONIZATION_BYTE>>), EvFlush>>,
          exc |-> "none", rd |-> <<>>, rx |-> <<>>]

\* GenericExecuteAndConfirm, had it sent the command byte twice
GenericExecuteAndConfirmPlain(cmd) == <<Wr(<<cmd>>), Wr(<<cmd>>), Ak>>

GenericExecuteAndConfirm(cmd) == <<Wr(<<cmd>>), Wr(<<Xor(cmd, 255)>>), Ak>>

\* get(), response_length being the second byte the device sends
GetScript(response_length) ==
    GenericExecuteAndConfirm(CMD_GET) \o <<Rd(1), Rd(1), Rd(response_length), Ak>>

Get(rx) == Exec(GetScript(IF Len(rx) >= 2 THEN rx[2] ELSE 0), rx)

\* get()['commands'] of a get that raised nothing
GetCommands(res) == res.rd[3]

GetVersionAndProtectionStatusScript ==
    GenericExecuteAndConfirm(CMD_GET_VERSION_AND_PROTECTION_STATUS)
        \o <<Rd(1), Rd(1), Rd(1), Ak>>

GetIdScript(response_length) ==
    GenericExecuteAndConfirm(CMD_GET_ID) \o <<Rd(1)>>
        \o (IF response_length # 1 THEN <<Raise(UnexpectedIdLength)>>
            ELSE <<Rd(1), Rd(1), Ak>>)

GetId(rx) == Exec(GetIdScript(IF Len(rx) >= 2 THEN rx[2] ELSE 0), rx)

WriteUnprotectScript == GenericExecuteAndConfirm(CMD_WRITE_UNPROTECT) \o <<Ak>>

ReadoutUnprotectScript == GenericExecuteAndConfirm(CMD_READOUT_UNPROTECT) \o <<Ak>>

\* struct.pack('>I', address) followed by the XOR of its four bytes
EncodeAddressWithChecksum(address) ==
    LET address_bytes == << (address \div 16777216) % 256, (address \div 65536) % 256,
                            (address \div 256) % 256, address % 256 >>
    IN  Append(address_bytes, XorFold(Tail(address_bytes), Head(address_bytes)))

\* ReadMemoryEncodedLength, had it not subtracted one
ReadMemoryEncodedLengthPlain(len) == Min(len, 256)

ReadMemoryEncodedLength(len) == Min(len, 256) - 1

ReadMemoryScript(start_address, len) ==
    LET encoded_length == ReadMemoryEncodedLength(len)
    IN  GenericExecuteAndConfirm(CMD_READ_MEMORY)
            \o <<Wr(EncodeAddressWithChecksum(start_address)), Ak>>
            \o (IF encoded_length < 0 THEN <<Raise("ValueError")>>
                ELSE <<Wr(<<encoded_length>>), Wr(<<Xor(encoded_length, 255)>>), Ak,
                       Rd(len)>>)

\* the value read_memory returns when it raised nothing
ReadMemoryData(res) == res.rd[1]

\* WriteMemoryLengthInvalid, had it refused a full block
WriteMemoryLengthInvalidFullBlock(data) ==
    Len(data) >= 256 \/ Len(data) = 0 \/ Len(data) % 4 # 0

WriteMemoryLengthInvalid(data) ==
    Len(data) > 256 \/ Len(data) = 0 \/ Len(data) % 4 # 0

\* WriteMemoryScript, had the length been checked after the command was confirmed
WriteMemoryScriptCheckingLate(start_address, data) ==
    LET encoded_length == Len(data) - 1
        checksum == XorFold(data, encoded_length)
    IN  GenericExecuteAndConfirm(CMD_WRITE_MEMORY)
            \o (IF WriteMemoryLengthInvalid(data) THEN <<Raise(InvalidDataLength)>>
                ELSE <<Wr(EncodeAddressWithChecksum(start_address)), Ak>>
                         \o <<Wr(<<encoded_length>>), Wr(data), Wr(<<checksum>>), Ak>>)

WriteMemoryScript(start_address, data) ==
    IF WriteMemoryLengthInvalid(data) THEN <<Raise(InvalidDataLength)>>
    ELSE LET encoded_length == Len(data) - 1
             checksum == XorFold(data, encoded_length)
         IN  GenericExecuteAndConfirm(CMD_WRITE_MEMORY)
                 \o <<Wr(EncodeAddressWithChecksum(start_address)), Ak>>
                 \o <<Wr(<<encoded_length>>), Wr(data), Wr(<<checksum>>), Ak>>

GlobalEraseScript == GenericExecuteAndConfirm(CMD_ERASE) \o <<Wr(<<255, 0>>), Ak>>

ExtendedEraseScript ==
    GenericExecuteAndConfirm(CMD_EXTENDED_ERASE) \o <<Wr(<<255, 255, 0>>), Ak>>

GoScript(start_address) ==
    GenericExecuteAndConfirm(CMD_GO)
        \o <<Wr(EncodeAddressWithChecksum(start_address)), Ak>>

\* The bytes a script writes if every step of it is reached
RECURSIVE HostBytes(_)
HostBytes(script) ==
    IF script = <<>> THEN <<>>
    ELSE (IF Head(script).k = "w" THEN Head(script).d ELSE <<>>) \o HostBytes(Tail(script))

\* One call on the loader as the trace records it
Call(op, a, n, res) == [op |-> op, a |-> a, n |-> n, ev |-> res.ev, exc |-> res.exc]

----------------------------------------------------------------------------
(* The bootloader device at the other end of the channel *)

MaxFaultPos == 4

NoFault == [at |-> 0, kind |-> "none"]

\* Where in its answer a device may go wrong: the first bytes and the last one
FaultPositions(stream) == (1..Min(Len(stream), MaxFaultPos)) \cup ({Len(stream)} \ {0})

\* silent: the device stops before byte at; nack: it sends NACK there and stops;
\* garble: byte at arrives with its lowest bit flipped (the first byte of an
\* answer, its first ACK, or the last one, an ACK or the end of the data)
Faults(stream) ==
    {NoFault} \cup
    (IF reliable THEN {}
     ELSE [at : FaultPositions(stream), kind : {"silent", "nack"}]
          \cup [at : {1, Len(stream)} \ {0}, kind : {"garble"}])

Faulted(stream, f) ==
    CASE f.kind = "none" -> stream
      [] f.kind = "silent" -> SubSeq(stream, 1, f.at - 1)
      [] f.kind = "nack" -> Append(SubSeq(stream, 1, f.at - 1), NACK)
      [] f.kind = "garble" -> [stream EXCEPT ![f.at] = Xor(@, 1)]

\* The command lists a device may advertise: with ERASE, or with EXTENDED_ERASE
CommandSets ==
    { <<CMD_ERASE, CMD_GET, CMD_READ_MEMORY, CMD_WRITE_MEMORY>>,
      <<CMD_EXTENDED_ERASE, CMD_GET, CMD_READ_MEMORY, CMD_WRITE_MEMORY>> }

\* The device's ACK or NACK of a command byte and its complement
DevCommandAck(tx, cmd) ==
    IF Len(tx) >= 2 /\ tx[1] = cmd /\ tx[2] = 255 - cmd THEN <<ACK>> ELSE <<NACK>>

\* The device's ACK or NACK of the five address bytes tx[3..7]
DevAddressAck(tx) ==
    IF Len(tx) >= 7 /\ tx[7] = Xor(Xor(tx[3], tx[4]), Xor(tx[5], tx[6]))
    THEN <<ACK>> ELSE <<NACK>>

DevAddress(tx) == ((tx[3] * 256 + tx[4]) * 256 + tx[5]) * 256 + tx[6]

DevGetAnswer(tx, cmds) ==
    IF DevCommandAck(tx, CMD_GET) = <<NACK>> THEN <<NACK>>
    ELSE <<ACK, Len(cmds), 49>> \o cmds \o <<ACK>>

DevVersionAnswer(tx) ==
    IF DevCommandAck(tx, CMD_GET_VERSION_AND_PROTECTION_STATUS) = <<NACK>> THEN <<NACK>>
    ELSE <<ACK, 49, 0, 0, ACK>>

DevIdAnswer(tx) ==
    IF DevCommandAck(tx, CMD_GET_ID) = <<NACK>> THEN <<NACK>>
    ELSE <<ACK, 1, 4, 16, ACK>>

\* Commands the device answers with ACK and, once done, a second ACK
DevPlainAnswer(tx, cmd) ==
    IF DevCommandAck(tx, cmd) = <<NACK>> THEN <<NACK>> ELSE <<ACK, ACK>>

\* Erase: the selector must be the mass erase one
DevEraseAnswer(tx, cmd) ==
    IF DevCommandAck(tx, cmd) = <<NACK>> THEN <<NACK>>
    ELSE IF (cmd = CMD_ERASE /\ SubSeq(tx, 3, Len(tx)) = <<255, 0>>)
            \/ (cmd = CMD_EXTENDED_ERASE /\ SubSeq(tx, 3, Len(tx)) = <<255, 255, 0>>)
         THEN <<ACK, ACK>> ELSE <<ACK, NACK>>

DevGoAnswer(tx) == DevCommandAck(tx, CMD_GO) \o
    (IF DevCommandAck(tx, CMD_GO) = <<ACK>> THEN DevAddressAck(tx) ELSE <<>>)

MemAt(m, a) == IF a \in DOMAIN m THEN m[a] ELSE 255

\* READ_MEMORY: tx[8] is the number of bytes wanted less one, tx[9] its complement
DevReadAnswer(m, tx) ==
    IF DevCommandAck(tx, CMD_READ_MEMORY) = <<NACK>> THEN <<NACK>>
    ELSE IF DevAddressAck(tx) = <<NACK>> THEN <<ACK, NACK>>
    ELSE IF Len(tx) < 9 \/ tx[9] # 255 - tx[8] THEN <<ACK, ACK, NACK>>
    ELSE <<ACK, ACK, ACK>> \o [i \in 1..(tx[8] + 1) |-> MemAt(m, DevAddress(tx) + i - 1)]

\* WRITE_MEMORY: tx[8] is the number of data bytes less one, then the data, then
\* the XOR of tx[8] and the data; a device that was sent nothing answers nothing
DevWriteValid(tx) ==
    /\ DevCommandAck(tx, CMD_WRITE_MEMORY) = <<ACK>>
    /\ DevAddressAck(tx) = <<ACK>>
    /\ Len(tx) >= 8
    /\ Len(tx) = 8 + (tx[8] + 1) + 1
    /\ tx[Len(tx)] = XorFold(SubSeq(tx, 9, Len(tx) - 1), tx[8])

DevWriteAnswer(tx) ==
    IF tx = <<>> THEN <<>>
    ELSE IF DevCommandAck(tx, CMD_WRITE_MEMORY) = <<NACK>> THEN <<NACK>>
    ELSE IF DevAddressAck(tx) = <<NACK>> THEN <<ACK, NACK>>
    ELSE IF Len(tx) < 8 \/ Len(tx) < 8 + (tx[8] + 1) + 1 THEN <<ACK, ACK>>
    ELSE IF DevWriteValid(tx) THEN <<ACK, ACK, ACK>> ELSE <<ACK, ACK, NACK>>

DevWriteStore(m, tx) ==
    IF ~DevWriteValid(tx) THEN m
    ELSE LET a == DevAddress(tx)
             written == a..(a + tx[8])
         IN  [x \in DOMAIN m \cup written |->
                 IF x \in written THEN tx[9 + (x - a)] ELSE m[x]]

----------------------------------------------------------------------------
(* load() and the block transfer loops *)

\* What a device may make of an exchange: the results of running script against
\* the device's answer stream, gone wrong in any of the ways Faults allows
Exchange(script, stream) ==
    {Exec(script, unread \o Faulted(stream, f)) : f \in Faults(stream)}

\* May the channel raise on a write
Breakages == IF reliable THEN {FALSE} ELSE BOOLEAN

RECURSIVE Pad(_)
RECURSIVE PadWithZero(_)
\* Pad, had it appended zero bytes
PadWithZero(image) == IF Len(image) % 4 # 0 THEN PadWithZero(Append(image, 0)) ELSE image

\* while len(binary_image) % 4 != 0: binary_image += b'\xFF'
Pad(image) == IF Len(image) % 4 # 0 THEN Pad(Append(image, PadByte)) ELSE image

\* load_address or DEFAULT_FLASH_ADDRESS
AddressOrDefault(address) ==
    IF address = <<>> \/ address[1] = 0 THEN DEFAULT_FLASH_ADDRESS ELSE address[1]

\* A progress callback invocation: frac is <<>> for None, <<num, den>> for num / den
Report(stage, frac) == [stage |-> stage, frac |-> frac]

\* Stage, had load handed the write reporter to both transfers
StageOfWrite == IF caller # "load" THEN "" ELSE "Writing image"

\* The stage label load binds into the reporter it hands to the block transfer
Stage == IF caller # "load" THEN "" ELSE IF pc = "write" THEN "Writing image" ELSE "Verification"

\* ChunkReport, had it reported what remains
ChunkReportRemaining(done, total) == Report(Stage, <<total - done, total>>)

\* progress_report_callback(offset / float(total)) after a block of the loop
ChunkReport(done, total) == Report(Stage, <<done, total>>)

\* progress_report_callback(1.0)
FinalReport == Report(Stage, <<1, 1>>)

\* Raised, had the exception been swallowed and the statement run again
RaisedAndRetried(e) == UNCHANGED <<pc, exc>>

\* Raised, had load had no finally clause
RaisedPastFinally(e) ==
    /\ exc' = e
    /\ pc' = "raised"

\* Where an exception takes control: load's finally clause, or out to the caller
Raised(e) ==
    /\ exc' = e
    /\ pc' = IF caller = "load" THEN "finally" ELSE "raised"

inputs == <<caller, arg_image, arg_address, go, readout_unprotect, write_unprotect,
            synchronization_prefix, reliable>>

locals == <<length, offset, output, readback>>

\* Lines 258-265: argument validation, first progress report, the loader opened
LoadBegin ==
    /\ pc = "load"
    /\ binary_image' = Pad(arg_image)
    /\ load_address' = AddressOrDefault(arg_address)
    /\ progress' = Append(progress, Report("Synchronization", <<>>))
    /\ io' = "open"
    /\ trace' = Append(trace, Call("open", 0, 0, [ev |-> <<EvOpen>>, exc |-> "none"]))
    /\ pc' = "synchronize"
    /\ UNCHANGED <<inputs, locals, attempt, var_get, exc, rounds, mem, unread>>

\* Lines 267-271: the first synchronize, its failure ignored
FirstSynchronize ==
    /\ pc = "synchronize"
    /\ \E broken \in Breakages :
          trace' = Append(trace, Call("synchronize", 0, 0,
                                       Synchronize(synchronization_prefix, FALSE, broken)))
    /\ unread' = <<>>
    /\ pc' = "resync"
    /\ UNCHANGED <<inputs, locals, binary_image, load_address, io, attempt, var_get,
                   exc, progress, rounds, mem>>

\* What the device may answer to a get of the resynchronization loop: a full
\* answer, nothing at all (it is not listening yet), or a NACK
ResyncAnswers ==
    LET tx == HostBytes(GenericExecuteAndConfirm(CMD_GET))
    IN  {DevGetAnswer(tx, <<CMD_ERASE, CMD_GET, CMD_READ_MEMORY, CMD_WRITE_MEMORY>>)}
            \cup (IF reliable THEN {} ELSE {<<>>, <<NACK>>})

\* Resync, had the third failed attempt raised its exception instead
ResyncRaisesWhenExhausted ==
    /\ pc = "resync"
    /\ \E answer \in ResyncAnswers, broken \in Breakages :
          LET res == Get(unread \o answer)
              sync == Synchronize(synchronization_prefix, TRUE, broken)
              got == Append(trace, Call("get", 0, 0, res))
          IN  IF res.exc = "none"
              THEN /\ trace' = got
                   /\ unread' = res.rx
                   /\ pc' = "get"
                   /\ UNCHANGED <<attempt, exc>>
              ELSE /\ trace' = Append(got, Call("synchronize", 0, 1, sync))
                   /\ unread' = <<>>
                   /\ IF sync.exc # "none"
                      THEN Raised(sync.exc) /\ UNCHANGED attempt
                      ELSE /\ attempt' = attempt + 1
                           /\ IF attempt + 1 < ResyncAttempts
                              THEN pc' = "resync" /\ UNCHANGED exc
                              ELSE Raised(res.exc)
    /\ UNCHANGED <<inputs, locals, binary_image, load_address, io, var_get, progress,
                   rounds, mem>>

\* Resync, had the recovery synchronize been inside a try block of its own
ResyncCatchingAll ==
    /\ pc = "resync"
    /\ \E answer \in ResyncAnswers, broken \in Breakages :
          LET res == Get(unread \o answer)
              sync == Synchronize(synchronization_prefix, TRUE, broken)
              got == Append(trace, Call("get", 0, 0, res))
          IN  IF res.exc = "none"
              THEN /\ trace' = got
                   /\ unread' = res.rx
                   /\ pc' = "get"
                   /\ UNCHANGED <<attempt, exc>>
              ELSE /\ trace' = Append(got, Call("synchronize", 0, 1, sync))
                   /\ unread' = <<>>
                   /\ IF FALSE
                      THEN Raised(sync.exc) /\ UNCHANGED attempt
                      ELSE /\ attempt' = attempt + 1
                           /\ pc' = IF attempt + 1 < ResyncAttempts THEN "resync" ELSE "get"
                           /\ UNCHANGED exc
    /\ UNCHANGED <<inputs, locals, binary_image, load_address, io, var_get, progress,
                   rounds, mem>>

\* Lines 274-280: one iteration of the resynchronization loop
Resync ==
    /\ pc = "resync"
    /\ \E answer \in ResyncAnswers, broken \in Breakages :
          LET res == Get(unread \o answer)
              sync == Synchronize(synchronization_prefix, TRUE, broken)
              got == Append(trace, Call("get", 0, 0, res))
          IN  IF res.exc = "none"
              THEN /\ trace' = got
                   /\ unread' = res.rx
                   /\ pc' = "get"
                   /\ UNCHANGED <<attempt, exc>>
              ELSE /\ trace' = Append(got, Call("synchronize", 0, 1, sync))
                   /\ unread' = <<>>
                   /\ IF sync.exc # "none"
                      THEN Raised(sync.exc) /\ UNCHANGED attempt
                      ELSE /\ attempt' = attempt + 1
                           /\ pc' = IF attempt + 1 < ResyncAttempts THEN "resync" ELSE "get"
                           /\ UNCHANGED exc
    /\ UNCHANGED <<inputs, locals, binary_image, load_address, io, var_get, progress,
                   rounds, mem>>

\* Line 283: var_get = loader.get()
GeneralInfo ==
    /\ pc = "get"
    /\ \E cmds \in CommandSets :
          LET tx == HostBytes(GenericExecuteAndConfirm(CMD_GET))
              stream == DevGetAnswer(tx, cmds)
          IN  \E f \in Faults(stream) :
                 LET res == Get(unread \o Faulted(stream, f))
                 IN  /\ trace' = Append(trace, Call("get", 0, 0, res))
                     /\ unread' = res.rx
                     /\ IF res.exc = "none"
                        THEN /\ var_get' = GetCommands(res)
                             /\ pc' = "version"
                             /\ UNCHANGED exc
                        ELSE Raised(res.exc) /\ UNCHANGED var_get
    /\ UNCHANGED <<inputs, locals, binary_image, load_address, io, attempt, progress,
                   rounds, mem>>

\* Line 286: loader.get_version_and_protection_status()
VersionInfo ==
    /\ pc = "version"
    /\ \E res \in Exchange(GetVersionAndProtectionStatusScript,
                           DevVersionAnswer(HostBytes(GetVersionAndProtectionStatusScript))) :
          /\ trace' = Append(trace, Call("get_version_and_protection_status", 0, 0, res))
          /\ unread' = res.rx
          /\ IF res.exc = "none" THEN pc' = "id" /\ UNCHANGED exc ELSE Raised(res.exc)
    /\ UNCHANGED <<inputs, locals, binary_image, load_address, io, attempt, var_get,
                   progress, rounds, mem>>

\* Lines 287-290: loader.get_id(), then the 'Configuring target' report
IdInfo ==
    /\ pc = "id"
    /\ LET stream == DevIdAnswer(HostBytes(GenericExecuteAndConfirm(CMD_GET_ID)))
       IN  \E f \in Faults(stream) :
              LET res == GetId(unread \o Faulted(stream, f))
              IN  /\ trace' = Append(trace, Call("get_id", 0, 0, res))
                  /\ unread' = res.rx
                  /\ IF res.exc = "none"
                     THEN /\ progress' = Append(progress, Report("Configuring target", <<>>))
                          /\ pc' = "readout_unprotect"
                          /\ UNCHANGED exc
                     ELSE Raised(res.exc) /\ UNCHANGED progress
    /\ UNCHANGED <<inputs, locals, binary_image, load_address, io, attempt, var_get,
                   rounds, mem>>

\* An unprotect command followed by synchronize(), or nothing if not wanted
Unprotect(wanted, name, script, cmd, next) ==
    /\ IF ~wanted
       THEN pc' = next /\ UNCHANGED <<trace, exc, unread>>
       ELSE \E res \in Exchange(script, DevPlainAnswer(HostBytes(script), cmd)),
               broken \in Breakages :
               LET sync == Synchronize(synchronization_prefix, FALSE, broken)
                   done == Append(trace, Call(name, 0, 0, res))
               IN  IF res.exc # "none"
                   THEN trace' = done /\ unread' = res.rx /\ Raised(res.exc)
                   ELSE /\ trace' = Append(done, Call("synchronize", 0, 0, sync))
                        /\ unread' = <<>>
                        /\ IF sync.exc # "none" THEN Raised(sync.exc)
                           ELSE pc' = next /\ UNCHANGED exc
    /\ UNCHANGED <<inputs, locals, binary_image, load_address, io, attempt, var_get,
                   progress, rounds, mem>>

\* Lines 292-294
ReadoutUnprotect ==
    /\ pc = "readout_unprotect"
    /\ Unprotect(readout_unprotect, "readout_unprotect", ReadoutUnprotectScript,
                 CMD_READOUT_UNPROTECT, "write_unprotect")

\* Lines 296-298
WriteUnprotect ==
    /\ pc = "write_unprotect"
    /\ Unprotect(write_unprotect, "write_unprotect", WriteUnprotectScript,
                 CMD_WRITE_UNPROTECT, "erase")

\* UseGlobalErase, had it looked for either erase command
UseGlobalEraseEither(commands) ==
    \E i \in 1..Len(commands) : commands[i] \in {CMD_ERASE, CMD_EXTENDED_ERASE}

\* if CMD_ERASE in var_get['commands']
UseGlobalErase(commands) == \E i \in 1..Len(commands) : commands[i] = CMD_ERASE

\* Lines 300-307: the erase, then write_memory_blocks entered (lines 234-235)
Erase ==
    /\ pc = "erase"
    /\ LET global == UseGlobalErase(var_get)
           script == IF global THEN GlobalEraseScript ELSE ExtendedEraseScript
           cmd == IF global THEN CMD_ERASE ELSE CMD_EXTENDED_ERASE
           stream == DevEraseAnswer(HostBytes(script), cmd)
       IN  \E res \in Exchange(script, stream) :
              /\ trace' = Append(trace, Call(IF global THEN "global_erase"
                                              ELSE "extended_erase", 0, 0, res))
              /\ unread' = res.rx
              /\ mem' = IF stream = <<ACK, ACK>> THEN [x \in {} |-> 0] ELSE mem
              /\ IF res.exc = "none"
                 THEN /\ pc' = "write"
                      /\ length' = Len(binary_image)
                      /\ offset' = 0
                      /\ UNCHANGED exc
                 ELSE Raised(res.exc) /\ UNCHANGED <<length, offset>>
    /\ UNCHANGED <<inputs, output, readback, binary_image, load_address, io, attempt,
                   var_get, progress, rounds>>

\* One write_memory call of write_memory_blocks, against the device
WriteMemoryCall(start_address, data, res, tx) ==
    /\ trace' = Append(trace, Call("write_memory", start_address, Len(data), res))
    /\ unread' = res.rx
    /\ mem' = DevWriteStore(mem, tx)

\* Lines 237-246: one iteration of write_memory_blocks' loop, or its last chunk
\* and final report; then read_memory_blocks is entered (lines 215-217)
WriteMemoryBlocks ==
    /\ pc = "write"
    /\ IF length > WRITE_BLOCK_SIZE
       THEN LET data == SubSeq(binary_image, offset + 1, offset + WRITE_BLOCK_SIZE)
                script == WriteMemoryScript(load_address + offset, data)
                tx == HostBytes(script)
            IN  \E res \in Exchange(script, DevWriteAnswer(tx)) :
                   /\ WriteMemoryCall(load_address + offset, data, res, tx)
                   /\ IF res.exc = "none"
                      THEN /\ length' = length - WRITE_BLOCK_SIZE
                           /\ offset' = offset + WRITE_BLOCK_SIZE
                           /\ progress' = Append(progress,
                                  ChunkReport(offset + WRITE_BLOCK_SIZE, Len(binary_image)))
                           /\ UNCHANGED <<pc, exc>>
                      ELSE Raised(res.exc) /\ UNCHANGED <<length, offset, progress>>
                   /\ UNCHANGED output
       ELSE LET data == SubSeq(binary_image, offset + 1, offset + length)
                script == WriteMemoryScript(load_address + offset, data)
                tx == HostBytes(script)
                results == IF length > 0 THEN Exchange(script, DevWriteAnswer(tx))
                           ELSE {[ev |-> <<>>, exc |-> "none", rd |-> <<>>, rx |-> unread]}
            IN  \E res \in results :
                   /\ IF length > 0
                      THEN WriteMemoryCall(load_address + offset, data, res, tx)
                      ELSE UNCHANGED <<trace, mem, unread>>
                   /\ IF res.exc = "none"
                      THEN /\ progress' = Append(progress, FinalReport)
                           /\ pc' = "read"
                           /\ length' = Len(binary_image)
                           /\ offset' = 0
                           /\ output' = <<>>
                           /\ UNCHANGED exc
                      ELSE Raised(res.exc) /\ UNCHANGED <<length, offset, output, progress>>
    /\ UNCHANGED <<inputs, readback, binary_image, load_address, io, attempt, var_get,
                   rounds>>

\* Lines 219-229: one iteration of read_memory_blocks' loop, or its last chunk,
\* final report and return
ReadMemoryBlocks ==
    /\ pc = "read"
    /\ IF length > READ_BLOCK_SIZE
       THEN LET script == ReadMemoryScript(load_address + offset, READ_BLOCK_SIZE)
            IN  \E res \in Exchange(script, DevReadAnswer(mem, HostBytes(script))) :
                   /\ trace' = Append(trace, Call("read_memory", load_address + offset,
                                                  READ_BLOCK_SIZE, res))
                   /\ unread' = res.rx
                   /\ IF res.exc = "none"
                      THEN /\ output' = output \o ReadMemoryData(res)
                           /\ length' = length - READ_BLOCK_SIZE
                           /\ offset' = offset + READ_BLOCK_SIZE
                           /\ progress' = Append(progress,
                                  ChunkReport(offset + READ_BLOCK_SIZE, Len(binary_image)))
                           /\ UNCHANGED <<pc, exc>>
                      ELSE Raised(res.exc) /\ UNCHANGED <<length, offset, output, progress>>
                   /\ UNCHANGED readback
       ELSE LET script == ReadMemoryScript(load_address + offset, length)
                results == IF length > 0
                           THEN Exchange(script, DevReadAnswer(mem, HostBytes(script)))
                           ELSE {[ev |-> <<>>, exc |-> "none", rd |-> <<<<>>>>, rx |-> unread]}
            IN  \E res \in results :
                   /\ IF length > 0
                      THEN /\ trace' = Append(trace, Call("read_memory", load_address + offset,
                                                          length, res))
                           /\ unread' = res.rx
                      ELSE UNCHANGED <<trace, unread>>
                   /\ IF res.exc = "none"
                      THEN /\ output' = output \o ReadMemoryData(res)
                           /\ readback' = output \o ReadMemoryData(res)
                           /\ progress' = Append(progress, FinalReport)
                           /\ pc' = "verify"
                           /\ UNCHANGED exc
                      ELSE Raised(res.exc) /\ UNCHANGED <<output, readback, progress>>
                   /\ UNCHANGED <<length, offset>>
    /\ UNCHANGED <<inputs, binary_image, load_address, io, attempt, var_get, rounds, mem>>

\* Verify, had it compared the lengths only
VerifyLengthOnly ==
    /\ pc = "verify"
    /\ caller = "load"
    /\ IF Len(readback) # Len(binary_image) THEN Raised(VerificationFailed)
       ELSE pc' = "go" /\ UNCHANGED exc
    /\ UNCHANGED <<inputs, locals, binary_image, load_address, io, trace, attempt,
                   var_get, progress, rounds, mem, unread>>

\* Lines 313-314: the comparison of the read-back with the image
Verify ==
    /\ pc = "verify"
    /\ caller = "load"
    /\ IF readback # binary_image THEN Raised(VerificationFailed)
       ELSE pc' = "go" /\ UNCHANGED exc
    /\ UNCHANGED <<inputs, locals, binary_image, load_address, io, trace, attempt,
                   var_get, progress, rounds, mem, unread>>

\* Go, had it not looked at the go flag
GoRegardless ==
    /\ pc = "go"
    /\ IF FALSE THEN pc' = "finally" /\ UNCHANGED <<trace, exc, unread>>
       ELSE LET script == GoScript(load_address)
            IN  \E res \in Exchange(script, DevGoAnswer(HostBytes(script))) :
                   /\ trace' = Append(trace, Call("go", load_address, 0, res))
                   /\ unread' = res.rx
                   /\ exc' = res.exc
                   /\ pc' = "finally"
    /\ UNCHANGED <<inputs, locals, binary_image, load_address, io, attempt, var_get,
                   progress, rounds, mem>>

\* Lines 317-318: if go: loader.go(load_address)
Go ==
    /\ pc = "go"
    /\ IF ~go THEN pc' = "finally" /\ UNCHANGED <<trace, exc, unread>>
       ELSE LET script == GoScript(load_address)
            IN  \E res \in Exchange(script, DevGoAnswer(HostBytes(script))) :
                   /\ trace' = Append(trace, Call("go", load_address, 0, res))
                   /\ unread' = res.rx
                   /\ exc' = res.exc
                   /\ pc' = "finally"
    /\ UNCHANGED <<inputs, locals, binary_image, load_address, io, attempt, var_get,
                   progress, rounds, mem>>

\* Finally, had close been the last statement of the try block instead
FinallyOnSuccessOnly ==
    /\ pc = "finally"
    /\ IF exc = "none"
       THEN /\ io' = "closed"
            /\ trace' = Append(trace, Call("close", 0, 0, [ev |-> <<EvClose>>, exc |-> "none"]))
       ELSE UNCHANGED <<io, trace>>
    /\ pc' = "done"
    /\ UNCHANGED <<inputs, locals, binary_image, load_address, attempt, var_get, exc,
                   progress, rounds, mem, unread>>

\* Lines 320-321: finally: loader.close(); load returns or the exception goes on
Finally ==
    /\ pc = "finally"
    /\ io' = "closed"
    /\ trace' = Append(trace, Call("close", 0, 0, [ev |-> <<EvClose>>, exc |-> "none"]))
    /\ pc' = "done"
    /\ UNCHANGED <<inputs, locals, binary_image, load_address, attempt, var_get, exc,
                   progress, rounds, mem, unread>>

----------------------------------------------------------------------------
(* The runs of load() *)

MaxSmallLen == 4

\* An image of len bytes: first, first + step, ... (mod 256)
Image(len, first, step) == [i \in 1..len |-> (first + step * (i - 1)) % 256]

LoadAddresses == {<<>>, <<0>>, <<134234112>>}

Prefixes == {<<>>, <<13>>}

Args(images, addresses, gos, readouts, writes, prefixes, reliables) ==
    [image : images, address : addresses, go : gos, readout_unprotect : readouts,
     write_unprotect : writes, prefix : prefixes, reliable : reliables]

\* The calls of load explored: every short image at every load address; every
\* combination of the flags and the prefix; a two-block image; and, against a
\* device that answers correctly throughout, a 1000 byte image and one a byte longer
LoadArgs ==
    Args({Image(n, 254, 1) : n \in 0..MaxSmallLen}, LoadAddresses, {TRUE}, {FALSE},
         {FALSE}, {<<>>}, {FALSE})
    \cup Args({Image(2, 254, 1)}, {<<>>}, BOOLEAN, BOOLEAN, BOOLEAN, Prefixes, {FALSE})
    \cup Args({Image(258, 1, 1)}, {<<>>}, {TRUE}, {FALSE}, {FALSE}, {<<>>}, {FALSE})
    \cup Args({Image(1000, 66, 0), Image(1001, 66, 0)}, {<<>>}, BOOLEAN, {FALSE},
              {FALSE}, {<<>>}, {TRUE})

Unassigned == <<-1>>

\* Nothing has run yet
Idle ==
    /\ trace = <<>>
    /\ attempt = 0
    /\ var_get = Unassigned
    /\ offset = 0
    /\ output = <<>>
    /\ readback = <<>>
    /\ exc = "none"
    /\ progress = <<>>
    /\ rounds = 0
    /\ unread = <<>>

Init ==
    /\ pc = "load"
    /\ caller = "load"
    /\ \E a \in LoadArgs :
          /\ arg_image = a.image
          /\ arg_address = a.address
          /\ go = a.go
          /\ readout_unprotect = a.readout_unprotect
          /\ write_unprotect = a.write_unprotect
          /\ synchronization_prefix = a.prefix
          /\ reliable = a.reliable
    /\ binary_image = arg_image
    /\ load_address = 0
    /\ io = "none"
    /\ length = 0
    /\ mem = [x \in {} |-> 0]
    /\ Idle

Next ==
    \/ LoadBegin
    \/ FirstSynchronize
    \/ Resync
    \/ GeneralInfo
    \/ VersionInfo
    \/ IdInfo
    \/ ReadoutUnprotect
    \/ WriteUnprotect
    \/ Erase
    \/ WriteMemoryBlocks
    \/ ReadMemoryBlocks
    \/ Verify
    \/ Go
    \/ Finally

Spec == Init /\ [][Next]_vars

\* The calls of load whose termination is explored: as LoadArgs, at the default
\* load address and with go set where the device may go wrong
FairArgs ==
    {a \in LoadArgs : a.address = <<>> /\ (a.go \/ a.reliable)}

InitFair ==
    /\ pc = "load"
    /\ caller = "load"
    /\ \E a \in FairArgs :
          /\ arg_image = a.image
          /\ arg_address = a.address
          /\ go = a.go
          /\ readout_unprotect = a.readout_unprotect
          /\ write_unprotect = a.write_unprotect
          /\ synchronization_prefix = a.prefix
          /\ reliable = a.reliable
    /\ binary_image = arg_image
    /\ load_address = 0
    /\ io = "none"
    /\ length = 0
    /\ mem = [x \in {} |-> 0]
    /\ Idle

\* load has a statement left to run: the positions at which Next is enabled
Running == pc \notin {"done", "raised", "acked"}

\* load is sequential code whose only suspension is a channel read, and a read
\* returns at the timeout at the latest: the next statement is always taken.
\* This is WF_vars(Next) with ENABLED <<Next>>_vars written out as Running.
SpecFair == InitFair /\ [][Next]_vars /\ ([]<>(~Running) \/ []<><<Next>>_vars)

----------------------------------------------------------------------------
(* write_memory_blocks and read_memory_blocks called directly on a loader,   *)
(* against a device that keeps what is written and answers correctly         *)

MaxRounds == 2

DirectLengths == (0..MaxSmallLen) \cup {8, 252, 256, 260, 512, 516, 1000, 1024}

DirectAddresses == {DEFAULT_FLASH_ADDRESS, 134234112 + 255}

\* What the flash holds beforehand: erased, or zeros where the data goes
DirectMemories(a) == {[x \in {} |-> 0], [x \in a..(a + 7) |-> 0]}

InitBlocks ==
    /\ caller = "direct"
    /\ pc = "write"
    /\ io = "open"
    /\ reliable = TRUE
    /\ go = FALSE /\ readout_unprotect = FALSE /\ write_unprotect = FALSE
    /\ synchronization_prefix = <<>>
    /\ arg_address \in {<<a>> : a \in DirectAddresses}
    /\ arg_image \in {Image(n, 1, 1) : n \in DirectLengths}
    /\ binary_image = arg_image
    /\ load_address = arg_address[1]
    /\ length = Len(arg_image)
    /\ mem \in DirectMemories(arg_address[1])
    /\ Idle

\* The caller writes and reads the same data once more
Again ==
    /\ pc = "verify"
    /\ caller = "direct"
    /\ rounds + 1 < MaxRounds
    /\ rounds' = rounds + 1
    /\ pc' = "write"
    /\ length' = Len(binary_image)
    /\ offset' = 0
    /\ output' = <<>>
    /\ UNCHANGED <<inputs, readback, binary_image, load_address, io, trace, attempt,
                   var_get, exc, progress, mem, unread>>

NextBlocks ==
    \/ WriteMemoryBlocks
    \/ ReadMemoryBlocks
    \/ Again

SpecBlocks == InitBlocks /\ [][NextBlocks]_vars

----------------------------------------------------------------------------
(* One _wait_for_ack on a channel holding any byte, or none *)

AckInputs == {<<>>} \cup {<<b>> : b \in 0..255} \cup {<<b, ACK>> : b \in 0..255}

InitAck ==
    /\ caller = "direct"
    /\ pc = "ack"
    /\ io = "open"
    /\ reliable = FALSE
    /\ go = FALSE /\ readout_unprotect = FALSE /\ write_unprotect = FALSE
    /\ synchronization_prefix = <<>>
    /\ arg_address = <<>>
    /\ arg_image = <<>>
    /\ binary_image = <<>>
    /\ load_address = 0
    /\ length = 0
    /\ mem = [x \in {} |-> 0]
    /\ trace = <<>> /\ attempt = 0 /\ var_get = Unassigned /\ offset = 0
    /\ output = <<>> /\ readback = <<>> /\ exc = "none" /\ progress = <<>>
    /\ rounds = 0
    /\ unread \in AckInputs

\* self._wait_for_ack() called once
WaitForAckCall ==
    /\ pc = "ack"
    /\ LET res == Exec(<<Ak>>, unread)
       IN  /\ trace' = Append(trace, Call("_wait_for_ack", 0, 0, res))
           /\ unread' = res.rx
           /\ IF res.exc = "none" THEN pc' = "acked" /\ UNCHANGED exc
              ELSE Raised(res.exc)
    /\ UNCHANGED <<inputs, locals, binary_image, load_address, io, attempt, var_get,
                   progress, rounds, mem>>

NextAck == WaitForAckCall

SpecAck == InitAck /\ [][NextAck]_vars

----------------------------------------------------------------------------
(* read_memory called once, directly on a loader *)

ReadLengths == {1, 2, 3, 4, 255, 256, 257, 300}

InitRead ==
    /\ caller = "direct"
    /\ pc = "read_memory"
    /\ io = "open"
    /\ reliable \in BOOLEAN
    /\ go = FALSE /\ readout_unprotect = FALSE /\ write_unprotect = FALSE
    /\ synchronization_prefix = <<>>
    /\ arg_address \in {<<a>> : a \in DirectAddresses}
    /\ arg_image = <<>>
    /\ binary_image = <<>>
    /\ load_address = arg_address[1]
    /\ length \in ReadLengths
    /\ mem \in DirectMemories(arg_address[1])
    /\ Idle

\* self.read_memory(load_address, length), lines 155-170
ReadMemoryCall ==
    /\ pc = "read_memory"
    /\ LET script == ReadMemoryScript(load_address, length)
       IN  \E res \in Exchange(script, DevReadAnswer(mem, HostBytes(script))) :
              /\ trace' = Append(trace, Call("read_memory", load_address, length, res))
              /\ unread' = res.rx
              /\ IF res.exc = "none"
                 THEN /\ output' = ReadMemoryData(res)
                      /\ pc' = "returned"
                      /\ UNCHANGED exc
                 ELSE Raised(res.exc) /\ UNCHANGED output
    /\ UNCHANGED <<inputs, length, offset, readback, binary_image, load_address, io,
                   attempt, var_get, progress, rounds, mem>>

NextRead == ReadMemoryCall

SpecRead == InitRead /\ [][NextRead]_vars

----------------------------------------------------------------------------
(* write_memory called once, directly on a loader *)

WriteLengths == {0, 1, 2, 3, 4, 5, 8, 252, 255, 256, 257, 260, 300}

InitWrite ==
    /\ caller = "direct"
    /\ pc = "write_memory"
    /\ io = "open"
    /\ reliable \in BOOLEAN
    /\ go = FALSE /\ readout_unprotect = FALSE /\ write_unprotect = FALSE
    /\ synchronization_prefix = <<>>
    /\ arg_address \in {<<a>> : a \in DirectAddresses}
    /\ arg_image \in {Image(n, 1, 1) : n \in WriteLengths}
    /\ binary_image = arg_image
    /\ load_address = arg_address[1]
    /\ length = 0
    /\ mem \in DirectMemories(arg_address[1])
    /\ Idle

\* self.write_memory(load_address, binary_image), lines 172-194
WriteMemoryDirect ==
    /\ pc = "write_memory"
    /\ LET script == WriteMemoryScript(load_address, binary_image)
           tx == HostBytes(script)
       IN  \E res \in Exchange(script, DevWriteAnswer(tx)) :
              /\ WriteMemoryCall(load_address, binary_image, res, tx)
              /\ IF res.exc = "none" THEN pc' = "returned" /\ UNCHANGED exc
                 ELSE Raised(res.exc)
    /\ UNCHANGED <<inputs, locals, binary_image, load_address, io, attempt, var_get,
                   progress, rounds>>

NextWrite == WriteMemoryDirect

SpecWrite == InitWrite /\ [][NextWrite]_vars

----------------------------------------------------------------------------
(* What the trace shows *)

\* The positions in the trace of the calls named in ops
CallsOf(ops) == {i \in 1..Len(trace) : trace[i].op \in ops}

RECURSIVE Concat(_)
Concat(ss) == IF ss = <<>> THEN <<>> ELSE Head(ss) \o Concat(Tail(ss))

IsWriteEvent(e) == e.op = "w"

\* The bytes call c wrote to the channel, in order
Written(c) ==
    LET w == SelectSeq(c.ev, IsWriteEvent) IN Concat([i \in 1..Len(w) |-> w[i].d])

IsCompleteRead(c) == c.op = "read_memory" /\ c.exc = "none"

\* The bytes the read_memory calls that returned took from the channel as data
ReadBackBytes ==
    LET r == SelectSeq(trace, IsCompleteRead)
    IN  Concat([i \in 1..Len(r) |-> r[i].ev[Len(r[i].ev)].d])

\* read_memory_blocks of the verification has returned
ReadBackReturned == \E i \in 1..Len(progress) : progress[i] = Report("Verification", <<1, 1>>)

GoIssued == CallsOf({"go"}) # {}

EraseCalls == CallsOf({"global_erase", "extended_erase"})

----------------------------------------------------------------------------
(* C1: once load has opened the loader, the channel is closed exactly once on *)
(* every way out of load, after success and after a failure of any step, never *)
(* twice, and nothing is written to or read from the channel after the close.  *)
C1_ClosedExactlyOnce ==
    LET closes == CallsOf({"close"})
        opens == CallsOf({"open"})
    IN  /\ Cardinality(closes) <= 1
        /\ \A i \in closes : i = Len(trace) /\ opens = {1}
        /\ (io = "closed") = (closes # {})
        /\ (io = "open") = (opens # {} /\ closes = {})
        /\ pc = "done" => Cardinality(closes) = 1
        /\ exc # "none" => pc \in {"finally", "done"}
        /\ pc = "finally" => io = "open" /\ ENABLED Finally

\* load left by a NACKed write chunk, the channel closed
C1_Witness ==
    /\ pc = "done"
    /\ io = "closed"
    /\ exc = "STM32LoaderNACKException"
    /\ \E i \in CallsOf({"write_memory"}) : trace[i].exc = exc /\ i + 1 = Len(trace)

(* C2: a read-back that differs from the padded image makes load fail with the *)
(* verification error and GO is never issued, whatever the go flag; GO is      *)
(* issued only after a read-back equal to the padded image byte for byte.      *)
C2_VerifyGuardsGo ==
    /\ GoIssued =>
          /\ ReadBackReturned
          /\ ReadBackBytes = binary_image
          /\ readback = ReadBackBytes
          /\ go
    /\ (ReadBackReturned /\ ReadBackBytes # binary_image) =>
          /\ ~GoIssued
          /\ pc \in {"verify", "finally", "done"}
          /\ pc # "verify" => exc = VerificationFailed
    /\ ReadBackReturned =>
          /\ Len(ReadBackBytes) = Len(binary_image)
          /\ \A i \in CallsOf({"read_memory"}) :
                trace[i].a >= load_address /\ trace[i].a < load_address + Len(binary_image)

\* load failed on a corrupted read-back with go set, and no GO was sent
C2_Witness ==
    /\ pc = "done"
    /\ go
    /\ exc = VerificationFailed
    /\ Len(ReadBackBytes) = Len(binary_image)
    /\ ReadBackBytes # binary_image
    /\ ~GoIssued

\* The command list the get call at position j of the trace returned
CommandsOfGet(j) == trace[j].ev[6].d

(* C3: a run that reaches the erase step issues exactly one erase, chosen from *)
(* the command list of the last get before it: global erase (0x43, selector FF *)
(* 00) iff 0x43 is in the list, else extended erase (0x44, FF FF 00); never    *)
(* both, and before the first WRITE_MEMORY.                                     *)
C3_OneEraseByCapability ==
    LET gets == {j \in CallsOf({"get"}) : trace[j].exc = "none"}
    IN  /\ Cardinality(EraseCalls) <= 1
        /\ (pc \in {"write", "read", "verify", "go"} \/ CallsOf({"write_memory"}) # {})
              => Cardinality(EraseCalls) = 1
        /\ \A i \in EraseCalls :
              LET before == {j \in gets : j < i}
                  last == CHOOSE j \in before : \A k \in before : k <= j
                  global == \E n \in 1..Len(CommandsOfGet(last)) :
                                CommandsOfGet(last)[n] = 67
                  all == IF global THEN <<67, 188, 255, 0>> ELSE <<68, 187, 255, 255, 0>>
              IN  /\ before # {}
                  /\ var_get = CommandsOfGet(last)
                  /\ trace[i].op = (IF global THEN "global_erase" ELSE "extended_erase")
                  /\ Written(trace[i]) = SubSeq(all, 1, Len(Written(trace[i])))
                  /\ Len(Written(trace[i])) >= 2
                  /\ trace[i].exc = "none" => Written(trace[i]) = all
                  /\ \A w \in CallsOf({"write_memory"}) : i < w

\* an extended erase was chosen and acknowledged, and a chunk written after it
C3_Witness ==
    \E i \in CallsOf({"extended_erase"}) :
       /\ trace[i].exc = "none"
       /\ \E w \in CallsOf({"write_memory"}) : w > i /\ trace[w].exc = "none"

\* The names of the calls made, in order
Ops == [i \in 1..Len(trace) |-> trace[i].op]

\* s, n times over
Rep(n, s) == Concat([i \in 1..n |-> s])

\* The number of blocks a transfer of len bytes takes
NChunks(len) == (len + 255) \div 256

IsWriteCall(c) == c.op = "write_memory"

IsReadCall(c) == c.op = "read_memory"

(* C4 as claimed: if all 3 get attempts of the resynchronization loop fail,   *)
(* the last one's exception leaves load: no further get, erase or write is    *)
(* issued and load ends in failure with the channel closed.                   *)
C4_Original ==
    attempt = ResyncAttempts =>
        /\ Cardinality(CallsOf({"get"})) <= ResyncAttempts
        /\ CallsOf({"global_erase", "extended_erase", "write_memory"}) = {}
        /\ pc = "done" => exc # "none"

(* C4 as amended: if all 3 get attempts of the loop fail (each followed by   *)
(* its recovery synchronize), the loop ends without raising and load issues a *)
(* fourth get; only if that one fails too does load fail: its exception       *)
(* leaves load, no further command is issued and the channel is closed.       *)
C4_FourthGetDecides ==
    attempt = ResyncAttempts =>
        LET fourth == 2 * ResyncAttempts + 3
        IN  /\ \A k \in 1..ResyncAttempts :
                  /\ trace[2 * k + 1].op = "get"
                  /\ trace[2 * k + 1].exc # "none"
                  /\ trace[2 * k + 2].op = "synchronize"
                  /\ trace[2 * k + 2].n = 1
                  /\ trace[2 * k + 2].exc = "none"
            /\ pc = "get" => exc = "none" /\ io = "open" /\ Len(trace) = fourth - 1
            /\ pc # "get" => Len(trace) >= fourth /\ trace[fourth].op = "get"
            /\ (Len(trace) >= fourth /\ trace[fourth].exc # "none") =>
                  /\ exc = trace[fourth].exc
                  /\ pc \in {"finally", "done"}
                  /\ Len(trace) <= fourth + 1
                  /\ pc = "done" =>
                        Len(trace) = fourth + 1 /\ trace[fourth + 1].op = "close"
                        /\ io = "closed"

\* three failed attempts, a fourth get that timed out, load ended, port closed
C4_Witness ==
    /\ attempt = ResyncAttempts
    /\ pc = "done"
    /\ Len(trace) = 2 * ResyncAttempts + 4
    /\ trace[2 * ResyncAttempts + 3].op = "get"
    /\ trace[2 * ResyncAttempts + 3].exc = "STM32LoaderTimeoutException"
    /\ exc = "STM32LoaderTimeoutException"

(* C5: before any chunk is written load pads the image with the least number *)
(* (0 to 3) of trailing 0xFF bytes that makes its length a multiple of 4; the *)
(* image is a prefix of the result, an image of such a length (also the empty *)
(* one) is unchanged, and the padded image is what is written, what sets the  *)
(* length read back and what the read-back is compared with.                  *)
C5_PaddedImage ==
    pc # "load" =>
        LET n == Len(arg_image)
            p == Len(binary_image)
            w == SelectSeq(trace, IsWriteCall)
            r == SelectSeq(trace, IsReadCall)
        IN  /\ p % 4 = 0
            /\ p - n \in 0..3
            /\ SubSeq(binary_image, 1, n) = arg_image
            /\ \A i \in (n + 1)..p : binary_image[i] = 255
            /\ n % 4 = 0 => binary_image = arg_image
            /\ \A i \in 1..Len(w) :
                  /\ w[i].a = load_address + 256 * (i - 1)
                  /\ w[i].n = IF i < NChunks(p) THEN 256 ELSE p - 256 * (i - 1)
                  /\ Len(w[i].ev) >= 7 =>
                        w[i].ev[7].d = SubSeq(binary_image, 256 * (i - 1) + 1,
                                              256 * (i - 1) + w[i].n)
            /\ Len(w) <= NChunks(p)
            /\ r # <<>> => Len(w) = NChunks(p)
            /\ \A i \in 1..Len(r) :
                  /\ r[i].a = load_address + 256 * (i - 1)
                  /\ r[i].n = IF i < NChunks(p) THEN 256 ELSE p - 256 * (i - 1)
            /\ ReadBackReturned => Len(r) = NChunks(p) /\ Len(ReadBackBytes) = p
            /\ exc = VerificationFailed => ReadBackBytes # binary_image
            /\ (ReadBackReturned /\ pc \in {"go", "finally", "done"} /\ exc = "none")
                  => ReadBackBytes = binary_image

\* a 1001 byte image, padded to 1004, written, read back and found equal
C5_Witness ==
    /\ Len(arg_image) = 1001
    /\ Len(binary_image) = 1004
    /\ pc = "done"
    /\ exc = "none"
    /\ Len(SelectSeq(trace, IsWriteCall)) = 4

\* The calls of a run of load that succeeds, in order
SuccessfulCalls ==
    <<"open", "synchronize">>
    \o Rep(attempt, <<"get", "synchronize">>)
    \o (IF attempt < ResyncAttempts THEN <<"get">> ELSE <<>>)
    \o <<"get", "get_version_and_protection_status", "get_id">>
    \o (IF readout_unprotect THEN <<"readout_unprotect", "synchronize">> ELSE <<>>)
    \o (IF write_unprotect THEN <<"write_unprotect", "synchronize">> ELSE <<>>)
    \o <<IF UseGlobalErase(var_get) THEN "global_erase" ELSE "extended_erase">>
    \o Rep(NChunks(Len(binary_image)), <<"write_memory">>)
    \o Rep(NChunks(Len(binary_image)), <<"read_memory">>)
    \o (IF go THEN <<"go">> ELSE <<>>)
    \o <<"close">>

(* C6: in a run of load that succeeds the calls on the device come in this   *)
(* order: synchronize, get (one or more, a recovery synchronize after each    *)
(* that failed), get_version_and_protection_status, get_id, readout_unprotect *)
(* if asked, write_unprotect if asked (a synchronize after either), one       *)
(* erase, the WRITE_MEMORY chunks, the READ_MEMORY chunks, GO iff the go flag *)
(* is set; GO is the last command written; a 1000 byte image is written as    *)
(* chunks of 256, 256, 256 and 232 bytes.                                     *)
C6_SuccessOrder ==
    (pc = "done" /\ exc = "none") =>
        LET w == SelectSeq(trace, IsWriteCall)
        IN  /\ Ops = SuccessfulCalls
            /\ \A i \in 1..Len(trace) :
                  trace[i].exc # "none" =>
                      (i + 1 <= 2 * attempt + 2 /\ trace[i + 1].op = "synchronize")
                      \/ i = 2
            /\ go => /\ trace[Len(trace) - 1].op = "go"
                     /\ SubSeq(Written(trace[Len(trace) - 1]), 1, 2) = <<33, 222>>
            /\ \A i \in 1..Len(trace) - 2 : Written(trace[i]) # <<>> => trace[i].op # "go"
            /\ Len(arg_image) = 1000 =>
                  /\ [i \in 1..Len(w) |-> w[i].n] = <<256, 256, 256, 232>>
                  /\ [i \in 1..Len(w) |-> Len(w[i].ev[7].d)] = <<256, 256, 256, 232>>

\* a 1000 byte image loaded with a global erase and started with GO
C6_Witness ==
    /\ pc = "done"
    /\ exc = "none"
    /\ Len(arg_image) = 1000
    /\ go
    /\ CallsOf({"global_erase"}) # {}
    /\ trace[Len(trace) - 1].op = "go"

(* C7: against a device that keeps what is written and acknowledges all,     *)
(* write_memory_blocks(addr, D) then read_memory_blocks(addr, len(D)) returns *)
(* exactly D for every D whose length is a multiple of 4 (0, 4, 256, 260,     *)
(* 1024 among them), again so when repeated, and for the empty D no command   *)
(* is issued at all.                                                          *)
C7_RoundTrip ==
    /\ pc = "raised" => Len(arg_image) % 4 # 0
    /\ pc = "verify" =>
          /\ readback = arg_image
          /\ Len(readback) = Len(arg_image)
          /\ \A i \in 1..Len(arg_image) : MemAt(mem, load_address + i - 1) = arg_image[i]
          /\ unread = <<>>
    /\ Len(arg_image) = 0 => trace = <<>>

\* 1024 bytes written and read back a second time, with the same result
C7_Witness ==
    /\ pc = "verify"
    /\ rounds = 1
    /\ Len(arg_image) = 1024
    /\ readback = arg_image
    /\ Len(SelectSeq(trace, IsReadCall)) = 8

(* C8: an ACK wait takes exactly one byte from the channel and ends in one of *)
(* four ways by that byte: success on 0x79, the NACK exception on 0x1F, the   *)
(* plain loader exception on any of the other 254 values, the timeout         *)
(* exception if no byte arrives; the three exceptions are of different        *)
(* classes.                                                                   *)
C8_AckOutcomes ==
    [][ pc = "ack" =>
          /\ Len(trace') = 1
          /\ trace'[1].ev = <<EvRead(1, SubSeq(unread, 1, Min(1, Len(unread))))>>
          /\ IF unread = <<>>
             THEN /\ unread' = <<>>
                  /\ exc' = "STM32LoaderTimeoutException"
                  /\ pc' = "raised"
             ELSE /\ unread' = Tail(unread)
                  /\ Head(unread) = 121 => exc' = "none" /\ pc' = "acked"
                  /\ Head(unread) = 31 => exc' = "STM32LoaderNACKException" /\ pc' = "raised"
                  /\ Head(unread) \notin {121, 31} => exc' = InvalidResponse /\ pc' = "raised"
          /\ Cardinality({ExcClass(exc'), ExcClass("STM32LoaderTimeoutException"),
                          ExcClass("STM32LoaderNACKException"),
                          ExcClass(InvalidResponse), "none"}) = 4
      ]_vars

\* the byte 0x00 was taken as an invalid response, the byte after it left unread
C8_Witness ==
    /\ pc = "raised"
    /\ exc = InvalidResponse
    /\ trace[1].ev = <<EvRead(1, <<0>>)>>
    /\ unread = <<ACK>>

(* C9: after the resynchronization loop load never retries: the first        *)
(* failure of any call ends load with that same exception, the failing read   *)
(* is the last thing done on the channel before the close, and the erase,     *)
(* each write chunk and each read chunk are issued at most once.              *)
C9_NoRetry ==
    /\ \A i \in 1..Len(trace) :
          trace[i].exc # "none" =>
              \/ /\ trace[i].op = "get"
                 /\ i < Len(trace)
                 /\ trace[i + 1].op = "synchronize"
                 /\ trace[i + 1].n = 1
                 /\ i + 1 <= 2 * ResyncAttempts + 2
              \/ trace[i].op = "synchronize" /\ i = 2
              \/ /\ exc = trace[i].exc
                 /\ pc \in {"finally", "done"}
                 /\ i = Len(trace) \/ (i + 1 = Len(trace) /\ trace[i + 1].op = "close")
                 /\ trace[i].op # "synchronize" =>
                       /\ trace[i].ev # <<>>
                       /\ trace[i].ev[Len(trace[i].ev)].op = "r"
    /\ (exc # "none" /\ exc # VerificationFailed) =>
          \E i \in 1..Len(trace) : trace[i].exc = exc /\ i + 1 >= Len(trace)
    /\ Cardinality(EraseCalls) <= 1
    /\ \A i, j \in CallsOf({"write_memory"}) : trace[i].a = trace[j].a => i = j
    /\ \A i, j \in CallsOf({"read_memory"}) : trace[i].a = trace[j].a => i = j

\* a read chunk timed out after the writes, and load ended there
C9_Witness ==
    /\ pc = "done"
    /\ exc = "STM32LoaderTimeoutException"
    /\ \E i \in CallsOf({"read_memory"}) : trace[i].exc = exc /\ i + 1 = Len(trace)
    /\ CallsOf({"write_memory"}) # {}

\* The reports of a finished transfer of k blocks and total bytes
TransferReports(k, total) ==
    [i \in 1..(IF k = 0 THEN 1 ELSE k) |->
        IF i < k THEN Report("", <<256 * i, total>>) ELSE Report("", <<1, 1>>)]

(* C10 as claimed: the block transfers call the progress callback once after *)
(* each chunk transferred and then once more with 1.0, so a transfer of k     *)
(* chunks makes k + 1 calls of it.                                            *)
C10_Original ==
    (rounds = 0 /\ pc \in {"read", "verify"}) =>
        Len(progress) = (Len(SelectSeq(trace, IsWriteCall)) + 1)
                        + (IF pc = "verify" THEN Len(SelectSeq(trace, IsReadCall)) + 1
                           ELSE Len(SelectSeq(trace, IsReadCall)))

(* C10 as amended: the block transfers call the progress callback once after *)
(* each chunk but the last, with the fraction of the bytes transferred so far *)
(* (below 1), and once with 1.0 on completion: a transfer of k >= 1 chunks    *)
(* makes k calls of it, an empty one a single call.                           *)
C10_ReportPerChunkButLast ==
    rounds = 0 =>
        LET total == Len(binary_image)
            w == Len(SelectSeq(trace, IsWriteCall))
            r == Len(SelectSeq(trace, IsReadCall))
            during(k) == [i \in 1..k |-> Report("", <<256 * i, total>>)]
        IN  /\ pc = "write" => progress = during(w) /\ (w > 0 => 256 * w < total)
            /\ pc = "read" =>
                  /\ w = NChunks(total)
                  /\ progress = TransferReports(w, total) \o during(r)
                  /\ r > 0 => 256 * r < total
            /\ pc = "verify" =>
                  /\ r = NChunks(total)
                  /\ progress = TransferReports(w, total) \o TransferReports(r, total)

\* 1024 bytes in 4 chunks each way: 4 reports for the write, 4 for the read
C10_Witness ==
    /\ pc = "verify"
    /\ rounds = 0
    /\ Len(arg_image) = 1024
    /\ Len(SelectSeq(trace, IsWriteCall)) = 4
    /\ Len(progress) = 8

IsWritingReport(r) == r.stage = "Writing image"

IsVerificationReport(r) == r.stage = "Verification"

\* The fractions of the reports rs: each in [0, 1], strictly increasing, the last 1.0
FractionsRiseToOne(rs) ==
    /\ rs # <<>>
    /\ \A i \in 1..Len(rs) :
          /\ rs[i].frac # <<>>
          /\ rs[i].frac[2] > 0
          /\ rs[i].frac[1] >= 0
          /\ rs[i].frac[1] <= rs[i].frac[2]
    /\ \A i \in 1..(Len(rs) - 1) :
          rs[i].frac[1] * rs[i + 1].frac[2] < rs[i + 1].frac[1] * rs[i].frac[2]
    /\ rs[Len(rs)].frac[1] = rs[Len(rs)].frac[2]

(* C11: in a run of load that succeeds the progress callback receives, in    *)
(* this order, ('Synchronization', None), ('Configuring target', None), a run *)
(* of 'Writing image' reports and a run of 'Verification' reports; in each    *)
(* run the fractions rise strictly, lie in [0, 1] and end with 1.0, and the   *)
(* reports are at least as many as the chunks of the stage (at least 4 for a  *)
(* 1000 byte image).                                                          *)
C11_ProgressOrder ==
    (pc = "done" /\ exc = "none") =>
        LET w == SelectSeq(progress, IsWritingReport)
            v == SelectSeq(progress, IsVerificationReport)
        IN  /\ progress = <<Report("Synchronization", <<>>),
                            Report("Configuring target", <<>>)>> \o w \o v
            /\ FractionsRiseToOne(w)
            /\ FractionsRiseToOne(v)
            /\ Len(w) >= Len(SelectSeq(trace, IsWriteCall))
            /\ Len(v) >= Len(SelectSeq(trace, IsReadCall))
            /\ Len(arg_image) = 1000 => Len(w) >= 4 /\ Len(v) >= 4

\* a 1000 byte image loaded: two stage starts, four reports of each transfer
C11_Witness ==
    /\ pc = "done"
    /\ exc = "none"
    /\ Len(arg_image) = 1000
    /\ Len(progress) = 10
    /\ progress[6] = Report("Writing image", <<1, 1>>)
    /\ progress[7] = Report("Verification", <<256, 1000>>)

\* The most calls a run of load makes on the loader: open, the first
\* synchronize, the loop, three gets of information, two unprotects each with a
\* synchronize, the erase, the chunks both ways, go and close
MaxCalls ==
    2 + 2 * ResyncAttempts + 3 + 4 + 1 + 2 * NChunks(Len(arg_image) + 3) + 2

(* C12: load always terminates: whatever the device does (silent, NACKing,    *)
(* sending garbage, stopping in the middle of a transfer) load ends, in       *)
(* success or in failure, with the channel closed, after a number of          *)
(* exchanges bounded by the image length and the retry count of 3.            *)
C12_Terminates ==
    /\ [](Len(trace) <= MaxCalls)
    /\ <>[](pc = "done" /\ io = "closed")

\* the device stopped answering in the second chunk of the read-back; load ended
C12_Witness ==
    /\ pc = "done"
    /\ io = "closed"
    /\ exc = "STM32LoaderTimeoutException"
    /\ Len(SelectSeq(trace, IsReadCall)) = 2
    /\ trace[Len(trace) - 1].op = "read_memory"
    /\ trace[Len(trace) - 1].exc = exc

\* The data bytes write_memory call c put on the channel (none if it got no further
\* than the address)
DataWritten(c) == IF Len(c.ev) >= 7 THEN c.ev[7].d ELSE <<>>

(* C13: write_memory_blocks sends the data as consecutive chunks in ascending *)
(* address order: chunk i (from 0) goes to addr + 256 * i, every chunk but the *)
(* last has 256 bytes, the last 1 to 256, the chunks put together are the      *)
(* data, and a chunk is started only after the final ACK of the one before;    *)
(* inside load every chunk length is a nonzero multiple of 4 not above 256 and *)
(* write_memory's length check never fails.                                    *)
C13_ChunksInOrder ==
    LET w == SelectSeq(trace, IsWriteCall)
        total == Len(binary_image)
    IN  /\ \A i \in 1..Len(w) :
              /\ w[i].a = load_address + 256 * (i - 1)
              /\ w[i].n = Min(256, total - 256 * (i - 1))
              /\ w[i].n \in 1..256
              /\ w[i].n % 4 = 0
              /\ w[i].exc # InvalidDataLength
              /\ w[i].ev # <<>>
              /\ DataWritten(w[i]) \in {<<>>, SubSeq(binary_image, 256 * (i - 1) + 1,
                                                     256 * (i - 1) + w[i].n)}
              /\ i < Len(w) =>
                    /\ w[i].n = 256
                    /\ w[i].exc = "none"
                    /\ Len(w[i].ev) = 9
                    /\ w[i].ev[9] = EvRead(1, <<ACK>>)
        /\ (caller = "load" /\ pc \in {"read", "verify", "go"}) =>
              /\ Len(w) = NChunks(total)
              /\ Concat([i \in 1..Len(w) |-> DataWritten(w[i])]) = binary_image
              /\ \A i \in 1..Len(w) : w[i].exc = "none"

\* a 258 byte image, padded to 260, written as a block of 256 and one of 4
C13_Witness ==
    LET w == SelectSeq(trace, IsWriteCall)
    IN  /\ caller = "load"
        /\ pc = "read"
        /\ Len(arg_image) = 258
        /\ Len(w) = 2
        /\ w[1].n = 256
        /\ w[2].n = 4
        /\ w[2].a = load_address + 256
        /\ w[2].exc = "none"

(* C14 as claimed: a read_memory call with length >= 1 is capped at 256      *)
(* bytes: what it reads from the channel after the length ACK is as many      *)
(* bytes as it asked the device for (the length byte sent plus one, that is   *)
(* min(length, 256)), never more than 256.                                    *)
C14_Original ==
    \A i \in CallsOf({"read_memory"}) :
        LET c == trace[i]
        IN  (c.n >= 1 /\ Len(c.ev) = 9) =>
                /\ c.ev[6].d = <<Min(c.n, 256) - 1>>
                /\ c.ev[9].n = c.ev[6].d[1] + 1
                /\ c.ev[9].n <= 256

(* C15: write_memory fails with the invalid-length error when len(data) is 0, *)
(* above 256 or not a multiple of 4, and then before any exchange: no byte     *)
(* has been written to the channel and none read from it, and the device and   *)
(* the channel are as they were; for every other length (4, 8, ..., 256) the   *)
(* length check passes and the command is sent.                                *)
C15_LengthCheckedFirst ==
    [][ pc = "write_memory" =>
          LET n == Len(binary_image)
              c == trace'[1]
          IN  /\ Len(trace') = 1
              /\ c.op = "write_memory"
              /\ IF n = 0 \/ n > 256 \/ n % 4 # 0
                 THEN /\ c.exc = InvalidDataLength
                      /\ exc' = InvalidDataLength
                      /\ pc' = "raised"
                      /\ c.ev = <<>>
                      /\ mem' = mem
                      /\ unread' = unread
                 ELSE /\ n \in {4 * k : k \in 1..64}
                      /\ c.exc # InvalidDataLength
                      /\ Len(c.ev) >= 3
                      /\ SubSeq(c.ev, 1, 2) = <<EvWrite(<<49>>), EvWrite(<<206>>)>>
      ]_vars

\* 300 bytes refused with nothing sent and nothing stored
C15_Witness ==
    /\ pc = "raised"
    /\ exc = InvalidDataLength
    /\ Len(binary_image) = 300
    /\ Len(trace) = 1
    /\ trace[1].op = "write_memory"
    /\ trace[1].ev = <<>>

\* The command operations, each with its opcode byte and the complement of it
Opcodes ==
    [get |-> <<0, 255>>, get_version_and_protection_status |-> <<1, 254>>,
     get_id |-> <<2, 253>>, read_memory |-> <<17, 238>>, go |-> <<33, 222>>,
     write_memory |-> <<49, 206>>, global_erase |-> <<67, 188>>,
     extended_erase |-> <<68, 187>>, write_unprotect |-> <<115, 140>>,
     readout_unprotect |-> <<146, 109>>]

(* C16: in every command operation the opcode byte is followed on the wire at *)
(* once by its bitwise complement, nothing being read or written between the   *)
(* two; the first read after them is the ACK wait, and no address, length,     *)
(* data or erase selector is written before that ACK was received.             *)
C16_CommandThenComplement ==
    \A i \in 1..Len(trace) :
        LET c == trace[i]
        IN  (c.op \in DOMAIN Opcodes /\ c.ev # <<>>) =>
                /\ Len(c.ev) >= 3
                /\ c.ev[1] = EvWrite(<<Opcodes[c.op][1]>>)
                /\ c.ev[2] = EvWrite(<<Opcodes[c.op][2]>>)
                /\ c.ev[3].op = "r"
                /\ c.ev[3].n = 1
                /\ Len(c.ev) > 3 => c.ev[3].d = <<121>>
                /\ c.ev[3].d # <<121>> => c.exc # "none" /\ Len(Written(c)) = 2

\* a run with both unprotects, an erase, a write, a read-back and GO, all confirmed
C16_Witness ==
    /\ pc = "done"
    /\ exc = "none"
    /\ {trace[i].op : i \in 1..Len(trace)} \cap DOMAIN Opcodes =
          {"get", "get_version_and_protection_status", "get_id", "readout_unprotect",
           "write_unprotect", "global_erase", "write_memory", "read_memory", "go"}

\* The recovery synchronize calls, synchronize(skip_prefix=True)
RecoveryCalls == {i \in CallsOf({"synchronize"}) : trace[i].n = 1}

(* C17: in load's resynchronization loop, if get attempt k (1..3) is the      *)
(* first that succeeds the loop stops at once: synchronize(skip_prefix=True)   *)
(* has been called k - 1 times, none follows the attempt that succeeded, one   *)
(* further get is issued (step 5), k + 1 GET commands in all, and in this      *)
(* phase the synchronization prefix is written by the initial synchronize      *)
(* only, never by a recovery synchronize.                                      *)
C17_LoopStopsOnSuccess ==
    LET k == attempt + 1
        hit == 2 * k + 1
    IN  /\ (attempt < ResyncAttempts /\ Len(trace) >= hit /\ trace[hit].op = "get"
            /\ trace[hit].exc = "none") =>
              /\ \A j \in 1..(k - 1) :
                    /\ trace[2 * j + 1].op = "get"
                    /\ trace[2 * j + 1].exc # "none"
                    /\ trace[2 * j + 2].op = "synchronize"
              /\ RecoveryCalls = {2 * j + 2 : j \in 1..(k - 1)}
              /\ Cardinality(RecoveryCalls) = k - 1
              /\ pc # "resync"
              /\ Len(trace) > hit =>
                    /\ trace[hit + 1].op = "get"
                    /\ Cardinality(CallsOf({"get"})) = k + 1
              /\ Cardinality(CallsOf({"get"})) <= k + 1
        /\ \A i \in CallsOf({"get"}) : SubSeq(Written(trace[i]), 1, 2) = <<0, 255>>
        /\ \A i \in RecoveryCalls :
              /\ Written(trace[i]) \in {<<>>, <<127>>}
              /\ trace[i].exc = "none" =>
                    trace[i].ev = <<EvFlush, EvWrite(<<127>>), EvFlush>>
        /\ (Len(trace) >= 2 /\ trace[2].exc = "none") =>
              Written(trace[2]) = synchronization_prefix \o <<127>>

\* with a prefix configured, the third attempt succeeded after two recoveries
C17_Witness ==
    /\ synchronization_prefix = <<13>>
    /\ attempt = 2
    /\ pc = "done"
    /\ exc = "none"
    /\ Cardinality(CallsOf({"get"})) = 4
    /\ Cardinality(RecoveryCalls) = 2
    /\ Written(trace[2]) = <<13, 127>>
    /\ Written(trace[4]) = <<127>>

(* C18 as claimed: in load's synchronization phase every failure is caught    *)
(* and never ends load before three get attempts were made: a failure of the   *)
(* initial synchronize is ignored, and a failure inside the loop, of get or of *)
(* the recovery synchronize, is followed by the next attempt.                  *)
C18_Original ==
    /\ (exc # "none" /\ \A i \in CallsOf({"get"}) : trace[i].exc # "none") =>
          Cardinality(CallsOf({"get"})) >= ResyncAttempts
    /\ \A i \in RecoveryCalls :
          (trace[i].exc # "none" /\ pc = "done") =>
              (i < Len(trace) /\ trace[i + 1].op = "get")

(* C18 as amended: a failure of the initial synchronize is ignored and get is *)
(* still attempted; a failure of get inside the loop is caught and followed by *)
(* a recovery synchronize and, if that returns, by the next attempt; a failure *)
(* of the recovery synchronize itself is not caught: it leaves load at once,   *)
(* the channel is closed, possibly before three get attempts were made.        *)
C18_RecoveryFailureLeaves ==
    /\ (Len(trace) >= 2 /\ trace[2].exc # "none") =>
          /\ trace[2].op = "synchronize"
          /\ Len(trace) = 2 => pc = "resync" /\ exc = "none"
          /\ Len(trace) > 2 => trace[3].op = "get"
    /\ \A i \in RecoveryCalls :
          /\ trace[i - 1].op = "get"
          /\ trace[i - 1].exc # "none"
          /\ trace[i].exc = "none" =>
                /\ Len(trace) = i => pc \in {"resync", "get"} /\ exc = "none"
                /\ Len(trace) > i => trace[i + 1].op = "get"
          /\ trace[i].exc # "none" =>
                /\ exc = trace[i].exc
                /\ pc \in {"finally", "done"}
                /\ Len(trace) <= i + 1
                /\ pc = "done" =>
                      Len(trace) = i + 1 /\ trace[i + 1].op = "close" /\ io = "closed"
    /\ \A i \in CallsOf({"get"}) :
          LET before == {j \in CallsOf({"get"}) : j < i}
          IN  (/\ trace[i].exc # "none"
               /\ Cardinality(before) < ResyncAttempts
               /\ \A j \in before : trace[j].exc # "none") =>
                  i + 1 \in RecoveryCalls
    /\ (/\ exc # "none"
        /\ \A i \in CallsOf({"get"}) : trace[i].exc # "none"
        /\ Cardinality(CallsOf({"get"})) < ResyncAttempts) =>
          \E i \in RecoveryCalls : trace[i].exc = exc

\* the first get failed, the recovery synchronize raised, and load ended there
C18_Witness ==
    /\ pc = "done"
    /\ exc = "SerialException"
    /\ Ops = <<"open", "synchronize", "get", "synchronize", "close">>
    /\ trace[3].exc # "none"
    /\ trace[4].n = 1
    /\ trace[4].exc = "SerialException"

(* C19 as claimed: in load the first write chunk, the first read-back chunk   *)
(* and GO all use the same load address, which is the one the caller supplied  *)
(* for every 32 bit value, 0 included, and 0x08000000 only when the caller     *)
(* supplied none.                                                              *)
C19_Original ==
    LET wanted == IF arg_address = <<>> THEN 134217728 ELSE arg_address[1]
        w == SelectSeq(trace, IsWriteCall)
        r == SelectSeq(trace, IsReadCall)
    IN  /\ w # <<>> => w[1].a = wanted
        /\ r # <<>> => r[1].a = wanted
        /\ \A i \in CallsOf({"go"}) : trace[i].a = wanted
        /\ pc \notin {"load", "synchronize"} => load_address = wanted

\* Bit j of byte x
Bit(x, j) == (x \div (2 ^ j)) % 2

\* Is x the XOR of first and the bytes of s: bit by bit, the parity of the ones
IsXorOf(x, first, s) ==
    /\ x \in 0..255
    /\ \A j \in 0..7 :
          Bit(x, j) = (Bit(first, j) + Cardinality({i \in 1..Len(s) : Bit(s[i], j) = 1})) % 2

(* C20: for a chunk D of a length that is a multiple of 4 in (0, 256],        *)
(* write_memory, once the address phase is ACKed, writes one length byte       *)
(* len(D) - 1 (no complement, no ACK awaited), then the bytes of D unchanged   *)
(* and in order, then one checksum byte, the XOR of len(D) - 1 and every byte  *)
(* of D, and only then waits for one ACK; the 5 address bytes sent before are  *)
(* the address big-endian followed by the XOR of its 4 bytes.                  *)
C20_WriteFrame ==
    \A i \in CallsOf({"write_memory"}) :
        LET c == trace[i]
            D == binary_image
            a == c.a
        IN  /\ Len(c.ev) >= 4 =>
                  /\ c.ev[4].op = "w"
                  /\ Len(c.ev[4].d) = 5
                  /\ SubSeq(c.ev[4].d, 1, 4) =
                         << a \div 16777216, (a \div 65536) % 256, (a \div 256) % 256,
                            a % 256 >>
                  /\ IsXorOf(c.ev[4].d[5], 0, SubSeq(c.ev[4].d, 1, 4))
            /\ (Len(c.ev) >= 5 /\ c.ev[5] = EvRead(1, <<121>>)) =>
                  /\ Len(D) \in {4 * k : k \in 1..64}
                  /\ Len(c.ev) = 9
                  /\ c.ev[6] = EvWrite(<<Len(D) - 1>>)
                  /\ c.ev[7] = EvWrite(D)
                  /\ c.ev[8].op = "w"
                  /\ Len(c.ev[8].d) = 1
                  /\ IsXorOf(c.ev[8].d[1], Len(D) - 1, D)
                  /\ c.ev[9].op = "r"
                  /\ c.ev[9].n = 1
                  /\ c.exc = "none" =>
                        /\ c.ev[9].d = <<121>>
                        /\ \A k \in 1..Len(D) : MemAt(mem, a + k - 1) = D[k]
            /\ (Len(c.ev) >= 5 /\ c.ev[5] # EvRead(1, <<121>>)) =>
                  Len(c.ev) = 5 /\ c.exc # "none"

\* a full block of 256 bytes framed, acknowledged and stored by the device
C20_Witness ==
    /\ pc = "returned"
    /\ Len(binary_image) = 256
    /\ Len(trace) = 1
    /\ trace[1].op = "write_memory"
    /\ trace[1].ev[6] = EvWrite(<<255>>)
    /\ trace[1].ev[7] = EvWrite(binary_image)
    /\ Len(trace[1].ev) = 9

====
